---- MODULE Spec2Model ----
(***************************************************************************)
(* Ledger store of FinancasPessoais: the database module behind the IPC    *)
(* handlers of electron/main.js, in its two variants (the synchronous      *)
(* better-sqlite3 module and the callback-based sqlite3 module).           *)
(*                                                                         *)
(* Amounts are integers in thousandths of the currency unit ("mills"), so  *)
(* that a payload with more than two decimals can be told from its         *)
(* rounding to cents.  Dates are triples <<year, month, day>>.             *)
(***************************************************************************)
EXTENDS Integers, Sequences, FiniteSets, TLC

VARIABLES
    variant,        \* which database module is loaded: "better" or "sqlite3"
    cards,          \* rows of table cards
    transactions,   \* rows of table transactions
    nextCardId,     \* AUTOINCREMENT sequence of cards
    nextTxId,       \* AUTOINCREMENT sequence of transactions
    pending,        \* the addTransaction call of the sqlite3 module that is in flight
    clock,          \* CURRENT_TIMESTAMP, in whole seconds
    other,          \* a second addTransaction call of the sqlite3 module in flight
    reply,          \* the request handler that holds its transaction list and awaits the savings
    ui,             \* the renderer: the transaction being edited, what is shown
    boot,           \* how far initializeApp has come
    twin,           \* a store of the better-sqlite3 module given the same requests
    last            \* the step taken last: request, outcome, rows written, rows listed

vars == <<variant, cards, transactions, nextCardId, nextTxId, pending, clock,
          other, reply, ui, boot, twin, last>>

\* what the requests of the database module leave alone
shell == <<other, reply, ui, boot, twin>>

----------------------------------------------------------------------------
(* Bounds of the model *)

MaxTx == 2             \* transaction ids ever allocated
MaxCards == 1          \* card ids ever allocated
MaxPlanCents == 12     \* largest total, in cents, of the planner's specification
MaxPlanParts == 5      \* largest installment count of the planner's specification
MaxClock == 1          \* seconds the clock moves on in the listing order's specification

----------------------------------------------------------------------------
(* Values *)

NULL == 0              \* SQL NULL in an INTEGER column; row ids start at 1

NullText == "<null>"   \* SQL NULL in a TEXT column

NoDate == <<>>         \* a falsy transactionDate ('' or undefined)

Min(a, b) == IF a < b THEN a ELSE b
Max(a, b) == IF a > b THEN a ELSE b

\* String.prototype.trim on the texts the model uses
Trim(s) ==
    CASE s = " mercado " -> "mercado"
      [] s = " casa "    -> "casa"
      [] s = " Visa "    -> "Visa"
      [] s = " feira "   -> "feira"
      [] s = " Elo "     -> "Elo"
      [] s = "  "        -> ""
      [] OTHER           -> s

\* cardId || null
OrNull(x) == IF x = 0 THEN NULL ELSE x

\* type === 'income' ? 'income' : 'expense'
NormalizeType(type) == IF type = "income" THEN "income" ELSE "expense"

----------------------------------------------------------------------------
(* dayjs(date).add(i, 'month').format('YYYY-MM-DD') *)

IsLeap(y) == (y % 4 = 0 /\ y % 100 # 0) \/ y % 400 = 0

DaysInMonth(y, m) ==
    CASE m \in {1, 3, 5, 7, 8, 10, 12} -> 31
      [] m \in {4, 6, 9, 11}           -> 30
      [] OTHER                         -> IF IsLeap(y) THEN 29 ELSE 28

AddMonthsNoClamp(date, i) ==
    LET total == date[1] * 12 + (date[2] - 1) + i
    IN  <<total \div 12, (total % 12) + 1, date[3]>>

AddMonths(date, i) ==
    LET total == date[1] * 12 + (date[2] - 1) + i
        y     == total \div 12
        m     == (total % 12) + 1
    IN  <<y, m, Min(date[3], DaysInMonth(y, m))>>

----------------------------------------------------------------------------
(* centsDistribution(total, parts): total in mills, parts >= 1; the result *)
(* is the sequence of amounts (value / 100), in mills                      *)

\* Math.round(Number(total) * 100)
ToCents(total) == (total + 5) \div 10

\* value / 100
FromCents(c) == c * 10

centsDistributionDropRemainder(total, parts) ==
    LET totalCents == ToCents(total)
        base       == totalCents \div parts
    IN  [index \in 1..parts |-> FromCents(base)]

centsDistributionTailRemainder(total, parts) ==
    LET totalCents == ToCents(total)
        base       == totalCents \div parts
        remainder  == totalCents - base * parts
    IN  [index \in 1..parts |->
            FromCents(base + (IF index > parts - remainder THEN 1 ELSE 0))]

centsDistribution(total, parts) ==
    LET totalCents == ToCents(total)
        base       == totalCents \div parts
        remainder  == totalCents - base * parts
    IN  [index \in 1..parts |->
            FromCents(base + (IF index - 1 < remainder THEN 1 ELSE 0))]

----------------------------------------------------------------------------
(* Schema: what an INSERT or UPDATE of table transactions accepts *)

CardIds == {c.id : c \in cards}

ForeignKeysOff(cardRef, cardSet) == TRUE

\* FOREIGN KEY(card_id) REFERENCES cards(id), with PRAGMA foreign_keys = ON
ForeignKeyOk(cardRef, cardSet) ==
    cardRef = NULL \/ \E c \in cardSet : c.id = cardRef

\* FOREIGN KEY(card_id) REFERENCES cards(id) ON DELETE SET NULL
OnDeleteCascade(id, rows) == {t \in rows : t.card_id # id}

OnDeleteSetNull(id, rows) ==
    {IF t.card_id = id THEN [t EXCEPT !.card_id = NULL] ELSE t : t \in rows}

----------------------------------------------------------------------------
(* addTransaction: normalisation and the entries of one installment group *)

TotalInstallmentsKeepIncome(req) == Max(1, req.installments)

TotalInstallments(req) ==
    IF NormalizeType(req.type) = "income" THEN 1 ELSE Max(1, req.installments)

\* transactionDate || dayjs().format('YYYY-MM-DD')
SafeTransactionDate(req, today) ==
    IF req.transactionDate = NoDate THEN today ELSE req.transactionDate

EntryCard(req) == OrNull(req.cardId)

EntryNumberZeroBased(i) == i - 1

EntryNumber(i) == i

EntryDateChained(req, today, i) ==
    LET F[k \in 1..i] ==
            IF k = 1 THEN SafeTransactionDate(req, today) ELSE AddMonths(F[k - 1], 1)
    IN  F[i]

EntryDate(req, today, i) == AddMonths(SafeTransactionDate(req, today), i - 1)

\* the bound parameters of the i-th INSERT (i = index + 1)
Entry(req, today, i) ==
    [ type               |-> NormalizeType(req.type),
      description        |-> Trim(req.description),
      category           |-> Trim(req.category),
      amount             |-> centsDistribution(req.amount, TotalInstallments(req))[i],
      transaction_date   |-> EntryDate(req, today, i),
      card_id            |-> EntryCard(req),
      installments       |-> TotalInstallments(req),
      installment_number |-> EntryNumber(i) ]

\* the row an INSERT of entry e creates under rowid id; created_at takes its
\* default, CURRENT_TIMESTAMP
Row(e, id) ==
    [ id                 |-> id,
      type               |-> e.type,
      description        |-> e.description,
      category           |-> e.category,
      amount             |-> e.amount,
      transaction_date   |-> e.transaction_date,
      card_id            |-> e.card_id,
      installments       |-> e.installments,
      installment_number |-> e.installment_number,
      created_at         |-> clock ]

\* the rows of the first n entries, under consecutive rowids from firstId
GroupRows(req, today, firstId, n) ==
    [i \in 1..n |-> Row(Entry(req, today, i), firstId + i - 1)]

Range(f) == {f[x] : x \in DOMAIN f}

NoCall == [active |-> FALSE]

\* a request without a payload
NoRequest == [none |-> TRUE]

\* no request handler is between its two reads
NoReply == [active |-> FALSE]

\* the renderer with no transaction being edited, no list shown and no error
Idle == [editing |-> NULL, shown |-> {}, error |-> FALSE]

\* what a step leaves for the caller: the request, whether it returned without
\* error, the rows it inserted, the transactions it listed, and the ids of the
\* stored rows it rewrote or deleted
Step(op, req, ok, written, listing, touched) ==
    [op |-> op, req |-> req, ok |-> ok, written |-> written, listing |-> listing,
     touched |-> touched]

----------------------------------------------------------------------------
(* addTransaction of the better-sqlite3 module: insertMany is a            *)
(* db.transaction, so an insert that throws rolls the whole group back.    *)
(* k is the number of rows written when an insert fails, or the size of    *)
(* the group when none does.                                               *)

InsertMany(store, group, k) ==
    IF k = Len(group) THEN store \cup Range(group) ELSE store

AddTransaction(req, today, k) ==
    LET n     == TotalInstallments(req)
        group == GroupRows(req, today, nextTxId, n)
        fkOk  == ForeignKeyOk(EntryCard(req), cards)
        ok    == k = n
    IN  /\ variant = "better"
        /\ k \in 0..n
        /\ ~fkOk => k = 0
        /\ transactions' = InsertMany(transactions, group, k)
        /\ nextTxId' = IF ok THEN nextTxId + n ELSE nextTxId
        /\ last' = Step("addTransaction", req, ok,
                        SubSeq(group, 1, k), IF ok THEN transactions' ELSE {}, {})
        /\ UNCHANGED <<variant, clock, shell, cards, nextCardId, pending>>

----------------------------------------------------------------------------
(* addTransaction of the sqlite3 module: insertNext runs one INSERT per    *)
(* callback, each committed on its own; the first error rejects the call.  *)

AddTransactionStart(req, today) ==
    /\ variant = "sqlite3"
    /\ ~pending.active
    /\ pending' = [active |-> TRUE, req |-> req, today |-> today,
                   index |-> 0, written |-> <<>>]
    /\ last' = Step("addTransaction:start", req, TRUE, <<>>, {}, {})
    /\ UNCHANGED <<variant, clock, shell, cards, transactions, nextCardId, nextTxId>>

\* the entry of the next INSERT of a call, as if `index` were one variable of
\* the module and not one of each call
NextEntryShared(call) ==
    Entry(call.req, call.today,
          Min((IF pending.active THEN pending.index ELSE 0) + 1,
              TotalInstallments(call.req)))

\* the entry of the next INSERT of a call, as if every INSERT bound the
\* values of the first
NextEntryFirst(call) == Entry(call.req, call.today, 1)

\* the bound parameters of the next INSERT of a call: index, amounts and
\* safeTransactionDate are those of the call's own closure
NextEntry(call) == Entry(call.req, call.today, call.index + 1)

NextIndexStuck(call) == call.index

\* index += 1
NextIndex(call) == call.index + 1

RejectAndRetry(call) == call

\* reject(err): the promise of the call settles and insertNext is not called again
Reject(call) == NoCall

InsertNext(fault) ==
    /\ variant = "sqlite3"
    /\ pending.active
    /\ pending.index < TotalInstallments(pending.req)
    /\ LET row  == Row(NextEntry(pending), nextTxId)
           fkOk == ForeignKeyOk(row.card_id, cards)
       IN  IF fkOk /\ ~fault
             THEN /\ transactions' = transactions \cup {row}
                  /\ nextTxId' = nextTxId + 1
                  /\ pending' = [pending EXCEPT !.index = NextIndex(pending),
                                                !.written = Append(@, row)]
                  /\ last' = Step("insertNext", pending.req, TRUE,
                                  pending'.written, {}, {})
             ELSE /\ pending' = Reject(pending)
                  /\ last' = Step("addTransaction", pending.req, FALSE,
                                  pending.written, {}, {})
                  /\ UNCHANGED <<transactions, nextTxId>>
    /\ UNCHANGED <<variant, clock, shell, cards, nextCardId>>

Finalize ==
    /\ variant = "sqlite3"
    /\ pending.active
    /\ pending.index >= TotalInstallments(pending.req)
    /\ pending' = NoCall
    /\ last' = Step("addTransaction", pending.req, TRUE, pending.written,
                    transactions, {})
    /\ UNCHANGED <<variant, clock, shell, cards, transactions, nextCardId, nextTxId>>

----------------------------------------------------------------------------
(* A second addTransaction call of the sqlite3 module, started while the   *)
(* first is in flight: the same code on its own closure.  The INSERTs of   *)
(* the two calls share the table and its AUTOINCREMENT sequence.           *)

AddTransactionStartOther(req, today) ==
    /\ variant = "sqlite3"
    /\ ~other.active
    /\ other' = [active |-> TRUE, req |-> req, today |-> today,
                 index |-> 0, written |-> <<>>]
    /\ last' = Step("addTransaction:start", req, TRUE, <<>>, {}, {})
    /\ UNCHANGED <<variant, clock, twin, reply, ui, boot, cards, transactions, nextCardId,
                   nextTxId, pending>>

InsertNextOther(fault) ==
    /\ variant = "sqlite3"
    /\ other.active
    /\ other.index < TotalInstallments(other.req)
    /\ LET row  == Row(NextEntry(other), nextTxId)
           fkOk == ForeignKeyOk(row.card_id, cards)
       IN  IF fkOk /\ ~fault
             THEN /\ transactions' = transactions \cup {row}
                  /\ nextTxId' = nextTxId + 1
                  /\ other' = [other EXCEPT !.index = NextIndex(other),
                                            !.written = Append(@, row)]
                  /\ last' = Step("insertNext", other.req, TRUE,
                                  other'.written, {}, {})
             ELSE /\ other' = Reject(other)
                  /\ last' = Step("addTransaction", other.req, FALSE,
                                  other.written, {}, {})
                  /\ UNCHANGED <<transactions, nextTxId>>
    /\ UNCHANGED <<variant, clock, twin, reply, ui, boot, cards, nextCardId, pending>>

FinalizeOther ==
    /\ variant = "sqlite3"
    /\ other.active
    /\ other.index >= TotalInstallments(other.req)
    /\ other' = NoCall
    /\ last' = Step("addTransaction", other.req, TRUE, other.written,
                    transactions, {})
    /\ UNCHANGED <<variant, clock, twin, reply, ui, boot, cards, transactions, nextCardId,
                   nextTxId, pending>>

----------------------------------------------------------------------------
(* updateTransaction, removeTransaction                                    *)
(*                                                                         *)
(* Both modules run the same single statement and then list the table.     *)
(* The statement is atomic in SQLite; the listing that follows it is taken *)
(* in the same step.  The savings history the handlers read afterwards is  *)
(* derived from the table and changes nothing.                             *)

\* Math.max(1, Number(installments) || 1), forced to 1 for income
NormalizedInstallments(req) ==
    IF NormalizeType(req.type) = "income"
      THEN 1
      ELSE Max(1, IF req.installments = 0 THEN 1 ELSE req.installments)

NormalizedInstallmentNumberNoClamp(req) ==
    IF NormalizeType(req.type) = "income"
      THEN 1
      ELSE Max(1, IF req.installmentNumber = 0 THEN 1 ELSE req.installmentNumber)

\* Math.min(Math.max(1, Number(installmentNumber) || 1), normalizedInstallments)
NormalizedInstallmentNumber(req) ==
    IF NormalizeType(req.type) = "income"
      THEN 1
      ELSE Min(Max(1, IF req.installmentNumber = 0 THEN 1 ELSE req.installmentNumber),
               NormalizedInstallments(req))

\* normalizedType === 'income' ? null : cardId || null
UpdateCard(req) ==
    IF NormalizeType(req.type) = "income" THEN NULL ELSE OrNull(req.cardId)

\* the SET clause of the UPDATE, applied to row t
UpdateRow(t, req) ==
    [ id                 |-> t.id,
      type               |-> NormalizeType(req.type),
      description        |-> Trim(req.description),
      category           |-> Trim(req.category),
      amount             |-> req.amount,
      transaction_date   |-> req.transactionDate,
      card_id            |-> UpdateCard(req),
      installments       |-> NormalizedInstallments(req),
      installment_number |-> NormalizedInstallmentNumber(req),
      created_at         |-> t.created_at ]

UpdateRowsNoWhere(rows, req) == {UpdateRow(t, req) : t \in rows}

\* UPDATE transactions SET ... WHERE id = ?
UpdateRows(rows, req) ==
    {IF t.id = req.id THEN UpdateRow(t, req) ELSE t : t \in rows}

UpdateTransaction(req) ==
    LET hit  == \E t \in transactions : t.id = req.id
        fkOk == ForeignKeyOk(UpdateCard(req), cards)
        ok   == hit => fkOk
    IN  /\ transactions' = IF ok THEN UpdateRows(transactions, req) ELSE transactions
        /\ last' = Step("updateTransaction", req, ok, <<>>,
                        IF ok THEN transactions' ELSE {},
                        IF ok /\ hit THEN {req.id} ELSE {})
        /\ UNCHANGED <<variant, clock, shell, cards, nextCardId, nextTxId, pending>>

DeleteRowAndSiblings(rows, id) ==
    {t \in rows :
        ~\E u \in rows : /\ u.id = id
                         /\ u.description = t.description
                         /\ u.installments = t.installments}

\* DELETE FROM transactions WHERE id = ?
DeleteRow(rows, id) == {t \in rows : t.id # id}

\* removeTransaction as if the DELETE took the card of the row with it
RemoveTransactionAndCard(id) ==
    /\ transactions' = DeleteRow(transactions, id)
    /\ cards' = {c \in cards :
                    ~\E t \in transactions : t.id = id /\ t.card_id = c.id}
    /\ last' = Step("removeTransaction", [id |-> id], TRUE, <<>>, transactions',
                    {t.id : t \in {u \in transactions : u.id = id}})
    /\ UNCHANGED <<variant, clock, shell, nextCardId, nextTxId, pending>>

RemoveTransaction(id) ==
    /\ transactions' = DeleteRow(transactions, id)
    /\ last' = Step("removeTransaction", [id |-> id], TRUE, <<>>, transactions',
                    {t.id : t \in {u \in transactions : u.id = id}})
    /\ UNCHANGED <<variant, clock, shell, cards, nextCardId, nextTxId, pending>>

----------------------------------------------------------------------------
(* addCard, removeCard *)

\* closingDay || 1, dueDay || 10
OrDefault(x, d) == IF x = 0 THEN d ELSE x

DefaultClosingDay == 1
DefaultDueDay == 10

CardRow(req, id) ==
    [ id          |-> id,
      name        |-> Trim(req.name),
      limit_value |-> req.limitValue,
      closing_day |-> OrDefault(req.closingDay, DefaultClosingDay),
      due_day     |-> OrDefault(req.dueDay, DefaultDueDay),
      brand       |-> IF Trim(req.brand) = "" THEN NullText ELSE Trim(req.brand) ]

AddCard(req) ==
    /\ cards' = cards \cup {CardRow(req, nextCardId)}
    /\ nextCardId' = nextCardId + 1
    /\ last' = Step("addCard", req, TRUE, <<>>, {}, {})
    /\ UNCHANGED <<variant, clock, shell, transactions, nextTxId, pending>>

\* DELETE FROM cards WHERE id = ?, with the foreign key action on transactions
RemoveCard(id) ==
    /\ cards' = {c \in cards : c.id # id}
    /\ transactions' = IF id \in CardIds
                         THEN OnDeleteSetNull(id, transactions)
                         ELSE transactions
    /\ last' = Step("removeCard", [id |-> id], TRUE, <<>>, {},
                    {t.id : t \in {u \in transactions : u.card_id = id}})
    /\ UNCHANGED <<variant, clock, shell, nextCardId, nextTxId, pending>>

----------------------------------------------------------------------------
(* Reads: getAllData, getTransactionsByMonth *)

DateLE(a, b) ==
    \/ a[1] < b[1]
    \/ a[1] = b[1] /\ a[2] < b[2]
    \/ a[1] = b[1] /\ a[2] = b[2] /\ a[3] <= b[3]

InMonthOpenEnd(date, year, month) ==
    /\ date # NoDate
    /\ DateLE(<<year, month, 1>>, date)
    /\ DateLE(date, <<year, month, DaysInMonth(year, month) - 1>>)

\* date(transaction_date) BETWEEN start AND end; date('') is NULL
InMonth(date, year, month) ==
    /\ date # NoDate
    /\ DateLE(<<year, month, 1>>, date)
    /\ DateLE(date, <<year, month, DaysInMonth(year, month)>>)

GetAllData ==
    /\ last' = Step("getAllData", NoRequest, TRUE, <<>>, transactions, {})
    /\ UNCHANGED <<variant, clock, shell, cards, transactions, nextCardId, nextTxId, pending>>

\* the rows the month query selects; for a year or month that is no number
\* dayjs gives an invalid date, both bounds are 'Invalid Date' and no row is
\* between them
TransactionsByMonth(rows, year, month) ==
    IF year = NULL \/ month = NULL
      THEN {}
      ELSE {t \in rows : InMonth(t.transaction_date, year, month)}

GetTransactionsByMonth(year, month) ==
    /\ last' = Step("getTransactionsByMonth", [year |-> year, month |-> month],
                    TRUE, <<>>, TransactionsByMonth(transactions, year, month), {})
    /\ UNCHANGED <<variant, clock, shell, cards, transactions, nextCardId, nextTxId, pending>>

----------------------------------------------------------------------------
(* ORDER BY: the SELECT statements name their sort keys; rows that agree   *)
(* on every key come out in an order SQLite does not fix, so a listing is  *)
(* any arrangement of the selected rows that respects the keys.            *)

\* date(x) < date(y) as SQLite compares them: NULL (date('')) sorts lowest
DateLT(a, b) ==
    IF a = NoDate THEN b # NoDate ELSE b # NoDate /\ a # b /\ DateLE(a, b)

\* the sequences that hold every row of the set exactly once
Arrangements(rows) ==
    {seq \in [1..Cardinality(rows) -> rows] : Range(seq) = rows}

\* ORDER BY date(transaction_date) DESC, created_at DESC
OrderByDateDesc(rows) ==
    {seq \in Arrangements(rows) :
        \A i, j \in DOMAIN seq :
            i < j =>
              /\ ~DateLT(seq[i].transaction_date, seq[j].transaction_date)
              /\ seq[i].transaction_date = seq[j].transaction_date
                    => seq[i].created_at >= seq[j].created_at}

\* ORDER BY date(transaction_date) ASC, installment_number ASC
OrderByMonth(rows) ==
    {seq \in Arrangements(rows) :
        \A i, j \in DOMAIN seq :
            i < j =>
              /\ ~DateLT(seq[j].transaction_date, seq[i].transaction_date)
              /\ seq[i].transaction_date = seq[j].transaction_date
                    => seq[i].installment_number <= seq[j].installment_number}

----------------------------------------------------------------------------
(* getSavingsHistory *)

\* CAST(strftime('%Y', transaction_date) AS INTEGER), and '%m' likewise;
\* strftime of '' is NULL
MonthOf(t) ==
    IF t.transaction_date = NoDate
      THEN <<NULL, NULL>>
      ELSE <<t.transaction_date[1], t.transaction_date[2]>>

\* SUM(CASE WHEN type = ? THEN amount ELSE 0 END) over the rows of a group
RECURSIVE SumByType(_, _)
SumByType(rows, type) ==
    IF rows = {}
      THEN 0
      ELSE LET t == CHOOSE x \in rows : TRUE
           IN  (IF t.type = type THEN t.amount ELSE 0) + SumByType(rows \ {t}, type)

\* ORDER BY year DESC, month DESC over the keys of GROUP BY year, month
RECURSIVE OrderKeysDesc(_)
OrderKeysDesc(keys) ==
    IF keys = {}
      THEN <<>>
      ELSE LET top == CHOOSE k \in keys :
                          \A o \in keys :
                              o[1] < k[1] \/ (o[1] = k[1] /\ o[2] <= k[2])
           IN  <<top>> \o OrderKeysDesc(keys \ {top})

SavingsUnclamped(income, expense) == income - expense

\* Math.max(income - expense, 0)
Savings(income, expense) == Max(income - expense, 0)

\* rows.map(...): the history entry of one group
SavingsEntry(rows, key) ==
    LET group   == {t \in rows : MonthOf(t) = key}
        income  == SumByType(group, "income")
        expense == SumByType(group, "expense")
    IN  [ year    |-> key[1],
          month   |-> key[2],
          income  |-> income,
          expense |-> expense,
          savings |-> Savings(income, expense) ]

TotalSavedNet(history) ==
    LET income[i \in 0..Len(history)] ==
            IF i = 0 THEN 0 ELSE income[i - 1] + history[i].income
        expense[i \in 0..Len(history)] ==
            IF i = 0 THEN 0 ELSE expense[i - 1] + history[i].expense
    IN  Max(income[Len(history)] - expense[Len(history)], 0)

\* history.reduce((acc, entry) => acc + entry.savings, 0)
TotalSaved(history) ==
    LET acc[i \in 0..Len(history)] ==
            IF i = 0 THEN 0 ELSE acc[i - 1] + history[i].savings
    IN  acc[Len(history)]

SavingsHistory(rows) ==
    LET keys    == OrderKeysDesc({MonthOf(t) : t \in rows})
        history == [i \in 1..Len(keys) |-> SavingsEntry(rows, keys[i])]
    IN  [history |-> history, totalSaved |-> TotalSaved(history)]

GetSavingsHistory ==
    /\ last' = [ op |-> "getSavingsHistory", req |-> NoRequest, ok |-> TRUE,
                 written |-> <<>>, listing |-> {}, touched |-> {},
                 savings |-> SavingsHistory(transactions) ]
    /\ UNCHANGED <<variant, clock, shell, cards, transactions, nextCardId, nextTxId, pending>>

----------------------------------------------------------------------------
(* The clock of CURRENT_TIMESTAMP moves on by a second *)

Tick ==
    /\ clock < MaxClock
    /\ clock' = clock + 1
    /\ UNCHANGED <<variant, shell, cards, transactions, nextCardId, nextTxId, pending, last>>

----------------------------------------------------------------------------
(* Request payloads of the store's specification *)

Today == <<2023, 12, 31>>

\* an expense of every count with every card reference, and an income that asks
\* for several installments on a card or for none
AddRequests ==
    [ type            : {"expense"},
      description     : {" mercado "},
      category        : {" casa "},
      amount          : {1000},
      transactionDate : {<<2024, 1, 31>>},
      installments    : 1..MaxTx,
      cardId          : 0..MaxCards ]
    \cup
    [ type            : {"income"},
      description     : {" mercado "},
      category        : {" casa "},
      amount          : {600},
      transactionDate : {<<2024, 1, 31>>},
      installments    : {MaxTx},
      cardId          : {0, MaxCards} ]

UpdateRequests ==
    [ id                : 1..MaxTx,
      type              : {"income", "expense"},
      description       : {"  "},
      category          : {" casa "},
      amount            : {2505},
      transactionDate   : {<<2024, 2, 1>>},
      installments      : {MaxTx},
      installmentNumber : {MaxTx + 1},
      cardId            : {0, MaxCards} ]

CardRequests ==
    [ name       : {" Visa "},
      limitValue : {500000},
      closingDay : {0},
      dueDay     : {15},
      brand      : {"  "} ]

Months == {<<2024, 2>>}

----------------------------------------------------------------------------
(* The store: both database modules behind the same request handlers *)

\* the twin store before any request
NoTwin ==
    [ cards |-> {}, transactions |-> {}, nextCardId |-> 1, nextTxId |-> 1,
      ok |-> TRUE, listing |-> {},
      seen |-> <<Step("init", NoRequest, TRUE, <<>>, {}, {}), 1, 1>> ]

\* the application once initializeApp has returned
Started == [database |-> TRUE, handlers |-> TRUE, window |-> TRUE, quit |-> FALSE]

Init ==
    /\ variant \in {"better", "sqlite3"}
    /\ cards = {}
    /\ transactions = {}
    /\ nextCardId = 1
    /\ nextTxId = 1
    /\ pending = NoCall
    /\ clock = 0
    /\ other = NoCall
    /\ reply = NoReply
    /\ ui = Idle
    /\ boot = Started
    /\ twin = NoTwin
    /\ last = Step("init", NoRequest, TRUE, <<>>, {}, {})

Next ==
    \/ \E req \in AddRequests : \E k \in 0..MaxTx :
          /\ nextTxId + TotalInstallments(req) - 1 <= MaxTx
          /\ AddTransaction(req, Today, k)
    \/ \E req \in AddRequests :
          /\ nextTxId + TotalInstallments(req) - 1 <= MaxTx
          /\ AddTransactionStart(req, Today)
    \/ \E fault \in BOOLEAN : InsertNext(fault)
    \/ Finalize
    \/ \E req \in UpdateRequests :
          UpdateTransaction(req)
    \/ \E id \in 1..MaxTx : RemoveTransaction(id)
    \/ \E req \in CardRequests :
          /\ nextCardId <= MaxCards
          /\ AddCard(req)
    \/ \E id \in 1..MaxCards : RemoveCard(id)
    \/ GetAllData
    \/ \E ym \in Months : GetTransactionsByMonth(ym[1], ym[2])
    \/ GetSavingsHistory

Spec == Init /\ [][Next]_vars

----------------------------------------------------------------------------
(* The planner: one addTransaction request on an empty store, without      *)
(* storage faults, over a wide range of payloads                           *)

PlanAmounts ==
    {FromCents(c) : c \in 0..MaxPlanCents} \cup {100000} \cup {14, 16, 1004}
        \cup {0 - 10, 0 - 70}

PlanDates ==
    { <<2024, 1, 31>>, <<2023, 12, 31>>, <<2023, 1, 31>>, <<2024, 10, 31>>,
      <<2024, 5, 15>>, NoDate }

PlanRequests ==
    [ type            : {"income", "expense", "other"},
      description     : {" mercado "},
      category        : {" casa "},
      amount          : PlanAmounts,
      transactionDate : PlanDates,
      installments    : 0..MaxPlanParts,
      cardId          : {0} ]

\* the months read back once the request has returned
PlanMonths == {<<year, month>> : year \in 2023..2025, month \in 1..12}

\* an addTransaction call that returned without error
AddDone == last.op = "addTransaction" /\ last.ok

NextPlan ==
    \/ \E req \in PlanRequests :
          /\ nextTxId = 1
          /\ AddTransaction(req, Today, TotalInstallments(req))
    \/ \E req \in PlanRequests :
          /\ nextTxId = 1
          /\ AddTransactionStart(req, Today)
    \/ InsertNext(FALSE)
    \/ Finalize
    \/ \E ym \in PlanMonths :
          /\ AddDone
          /\ GetTransactionsByMonth(ym[1], ym[2])

SpecPlan == Init /\ [][NextPlan]_vars

----------------------------------------------------------------------------
(* The editor: addTransaction and updateTransaction requests whose         *)
(* installment count and installment number are any integer around the     *)
(* range the store accepts                                                 *)

EditAdds ==
    [ type            : {"expense"},
      description     : {" mercado "},
      category        : {" casa "},
      amount          : {1000},
      transactionDate : {<<2024, 1, 31>>},
      installments    : (0 - 1)..MaxTx,
      cardId          : {0} ]
    \cup
    [ type            : {"income"},
      description     : {" mercado "},
      category        : {" casa "},
      amount          : {1000},
      transactionDate : {<<2024, 1, 31>>},
      installments    : {MaxTx},
      cardId          : {0} ]

\* an expense with a count below 1 or of 2 and a number below, inside and above
\* the count, and an income that asks for a count and a number above 1
EditRequests ==
    [ id                : 1..MaxTx,
      type              : {"expense"},
      description       : {" mercado "},
      category          : {" casa "},
      amount            : {1000},
      transactionDate   : {<<2024, 2, 1>>},
      installments      : {0 - 1, 0, 2},
      installmentNumber : (0 - 1)..3,
      cardId            : {0} ]
    \cup
    [ id                : 1..MaxTx,
      type              : {"income"},
      description       : {" mercado "},
      category          : {" casa "},
      amount            : {1000},
      transactionDate   : {<<2024, 2, 1>>},
      installments      : {2},
      installmentNumber : {3},
      cardId            : {0} ]

NextEdit ==
    \/ \E req \in EditAdds :
          /\ nextTxId + TotalInstallments(req) - 1 <= MaxTx
          /\ AddTransaction(req, Today, TotalInstallments(req))
    \/ \E req \in EditAdds :
          /\ nextTxId + TotalInstallments(req) - 1 <= MaxTx
          /\ AddTransactionStart(req, Today)
    \/ InsertNext(FALSE)
    \/ Finalize
    \/ \E req \in EditRequests : UpdateTransaction(req)

SpecEdit == Init /\ [][NextEdit]_vars

----------------------------------------------------------------------------
(* The card table: addCard and removeCard requests over a wide range of    *)
(* payloads, one card more than the store's specification holds            *)

CardPayloads ==
    [ name       : {" Visa ", "  "},
      limitValue : {500000, 0, 0 - 100},
      closingDay : {0, 5},
      dueDay     : {0, 15},
      brand      : {"  ", " Elo "} ]

NextCards ==
    \/ \E req \in CardPayloads :
          /\ nextCardId <= MaxCards + 1
          /\ AddCard(req)
    \/ \E id \in 1..(MaxCards + 1) : RemoveCard(id)

SpecCards == Init /\ [][NextCards]_vars

----------------------------------------------------------------------------
(* The listing order: addTransaction requests and getAllData reads while   *)
(* the clock of CURRENT_TIMESTAMP moves on, without cards or faults        *)

OrderAdds == {req \in AddRequests : req.cardId = 0}

NextOrder ==
    \/ Tick
    \/ \E req \in OrderAdds :
          /\ nextTxId + TotalInstallments(req) - 1 <= MaxTx
          /\ AddTransaction(req, Today, TotalInstallments(req))
    \/ \E req \in OrderAdds :
          /\ nextTxId + TotalInstallments(req) - 1 <= MaxTx
          /\ AddTransactionStart(req, Today)
    \/ InsertNext(FALSE)
    \/ Finalize
    \/ GetAllData

SpecOrder == Init /\ [][NextOrder]_vars

----------------------------------------------------------------------------
(* Termination: the store without cards, where the callbacks of the        *)
(* sqlite3 module (the completion of an INSERT, of finalize) are always    *)
(* run by the event loop once they are due                                 *)

Callback ==
    \/ \E fault \in BOOLEAN :
          /\ nextTxId <= MaxTx
          /\ InsertNext(fault)
    \/ Finalize

NextLive ==
    \/ \E req \in OrderAdds : \E k \in 0..MaxTx :
          /\ nextTxId + TotalInstallments(req) - 1 <= MaxTx
          /\ AddTransaction(req, Today, k)
    \/ \E req \in OrderAdds :
          /\ nextTxId + TotalInstallments(req) - 1 <= MaxTx
          /\ AddTransactionStart(req, Today)
    \/ Callback
    \/ \E req \in EditRequests : UpdateTransaction(req)

SpecLive == Init /\ [][NextLive]_vars /\ WF_pending(Callback)

----------------------------------------------------------------------------
(* Overlap: two addTransaction calls of the sqlite3 module in flight at    *)
(* once, without cards or faults; each may write up to MaxTx rows          *)

OtherAdds ==
    [ type            : {"expense"},
      description     : {" feira "},
      category        : {" casa "},
      amount          : {505},
      transactionDate : {<<2024, 3, 31>>},
      installments    : 1..MaxTx,
      cardId          : {0} ]

\* the rows a call in flight has still to insert
Remaining(call) ==
    IF call.active THEN TotalInstallments(call.req) - call.index ELSE 0

NextOverlap ==
    \/ \E req \in OrderAdds :
          /\ nextTxId + TotalInstallments(req) + Remaining(other) - 1 <= 2 * MaxTx
          /\ AddTransactionStart(req, Today)
    \/ \E req \in OtherAdds :
          /\ nextTxId + TotalInstallments(req) + Remaining(pending) - 1 <= 2 * MaxTx
          /\ AddTransactionStartOther(req, Today)
    \/ InsertNext(FALSE)
    \/ InsertNextOther(FALSE)
    \/ Finalize
    \/ FinalizeOther

SpecOverlap == Init /\ [][NextOverlap]_vars

----------------------------------------------------------------------------
(* The handlers of db:add-transaction, db:remove-transaction and           *)
(* db:update-transaction: `transactions` is bound when the store call has  *)
(* resolved, `savings` by a later call of getSavingsHistory, and the pair  *)
(* is returned.  The better-sqlite3 calls return values, so both awaits    *)
(* of a handler resume within its own event-loop turn; the sqlite3 calls   *)
(* resolve from completion callbacks, between which other requests run.    *)

MutationOps == {"addTransaction", "updateTransaction", "removeTransaction"}

\* a store call has resolved and its handler has not bound the result yet
Resolved == last.op \in MutationOps /\ last.ok /\ ~reply.active

\* a request may enter the store
CanTake ==
    /\ ~Resolved
    /\ variant = "better" => ~reply.active

HandlerTransactions ==
    /\ Resolved
    /\ reply' = [active |-> TRUE, op |-> last.op, req |-> last.req,
                 transactions |-> last.listing]
    /\ UNCHANGED <<variant, cards, transactions, nextCardId, nextTxId, pending,
                   clock, twin, other, ui, boot, last>>

HandlerSavings ==
    /\ reply.active
    /\ reply' = NoReply
    /\ last' = [ op |-> "reply", req |-> reply.req, ok |-> TRUE,
                 written |-> <<>>, listing |-> reply.transactions,
                 touched |-> {}, savings |-> SavingsHistory(transactions) ]
    /\ UNCHANGED <<variant, cards, transactions, nextCardId, nextTxId, pending,
                   clock, twin, other, ui, boot>>

NextReply ==
    \/ \E req \in OrderAdds :
          /\ CanTake
          /\ nextTxId + TotalInstallments(req) - 1 <= MaxTx
          /\ AddTransaction(req, Today, TotalInstallments(req))
    \/ \E req \in OrderAdds :
          /\ CanTake
          /\ nextTxId + TotalInstallments(req) - 1 <= MaxTx
          /\ AddTransactionStart(req, Today)
    \/ InsertNext(FALSE)
    \/ Finalize
    \/ \E req \in UpdateRequests :
          /\ CanTake
          /\ UpdateTransaction(req)
    \/ \E id \in 1..MaxTx :
          /\ CanTake
          /\ RemoveTransaction(id)
    \/ HandlerTransactions
    \/ HandlerSavings

SpecReply == Init /\ [][NextReply]_vars

----------------------------------------------------------------------------
(* Views: the savings history and the month listing read after adds and    *)
(* updates; an update may carry the empty string as its date, which        *)
(* updateTransaction stores as it is                                       *)

ViewUpdates ==
    [ id                : 1..MaxTx,
      type              : {"income", "expense"},
      description       : {" mercado "},
      category          : {" casa "},
      amount            : {2500},
      transactionDate   : {<<2024, 2, 1>>, NoDate},
      installments      : {1},
      installmentNumber : {1},
      cardId            : {0} ]

NextViews ==
    \/ \E req \in OrderAdds : \E k \in 0..MaxTx :
          /\ nextTxId + TotalInstallments(req) - 1 <= MaxTx
          /\ AddTransaction(req, Today, k)
    \/ \E req \in OrderAdds :
          /\ nextTxId + TotalInstallments(req) - 1 <= MaxTx
          /\ AddTransactionStart(req, Today)
    \/ InsertNext(FALSE)
    \/ Finalize
    \/ \E req \in ViewUpdates : UpdateTransaction(req)
    \/ GetSavingsHistory
    \/ \E ym \in Months : GetTransactionsByMonth(ym[1], ym[2])

SpecViews == Init /\ [][NextViews]_vars

----------------------------------------------------------------------------
(* The transaction form of the renderer (App.jsx) over the bridge that     *)
(* preload.js exposes as window.financeApi.  ui.editing is the id of       *)
(* editingTransaction (NULL for none), ui.shown the transactions state,    *)
(* ui.error whether an error message is set.                               *)

\* the functions of the object given to contextBridge.exposeInMainWorld
FinanceApi ==
    {"getInitialData", "addTransaction", "removeTransaction", "addCard",
     "removeCard", "getTransactionsByMonth"}

EditForms ==
    [ type              : {"income", "expense"},
      description       : {"mercado", ""},
      category          : {"casa", ""},
      amount            : {2500, 0},
      date              : {<<2024, 2, 1>>},
      installments      : {1},
      installmentNumber : {1},
      cardId            : {0} ]

\* the checks of handleSubmitTransaction before the try block
ValidForm(form) ==
    /\ form.description # ""
    /\ form.category # ""
    /\ form.amount > 0

\* updatePayload
UpdatePayload(form, id) ==
    [ id                |-> id,
      type              |-> form.type,
      description       |-> form.description,
      category          |-> form.category,
      amount            |-> form.amount,
      transactionDate   |-> form.date,
      installments      |-> IF form.type = "expense"
                              THEN OrDefault(form.installments, 1) ELSE 1,
      installmentNumber |-> IF form.type = "expense"
                              THEN OrDefault(form.installmentNumber, 1) ELSE 1,
      cardId            |-> IF form.type = "expense" THEN form.cardId ELSE NULL ]

\* the add branch after its await: setTransactions(updatedTransactions)
ShowAdded ==
    /\ AddDone
    /\ ui.shown # last.listing
    /\ ui' = [ui EXCEPT !.shown = last.listing, !.error = FALSE]
    /\ UNCHANGED <<variant, cards, transactions, nextCardId, nextTxId, pending,
                   clock, twin, other, reply, boot, last>>

StartEditingTransaction(id) ==
    /\ id \in {t.id : t \in ui.shown}
    /\ ui' = [ui EXCEPT !.editing = id, !.error = FALSE]
    /\ last' = Step("startEditingTransaction", [id |-> id], TRUE, <<>>, {}, {})
    /\ UNCHANGED <<variant, cards, transactions, nextCardId, nextTxId, pending,
                   clock, twin, other, reply, boot>>

HandleCancelEdit ==
    /\ ui.editing # NULL
    /\ ui' = [ui EXCEPT !.editing = NULL, !.error = FALSE]
    /\ last' = Step("handleCancelEdit", NoRequest, TRUE, <<>>, {}, {})
    /\ UNCHANGED <<variant, cards, transactions, nextCardId, nextTxId, pending,
                   clock, twin, other, reply, boot>>

\* handleSubmitTransaction with editingTransaction set.  A call of a
\* function the bridge does not have throws inside the try block, and the
\* catch sets the error message.
HandleSubmitEdit(form) ==
    LET req     == UpdatePayload(form, ui.editing)
        reached == ValidForm(form) /\ "updateTransaction" \in FinanceApi
        hit     == \E t \in transactions : t.id = req.id
    IN  /\ ui.editing # NULL
        /\ ~pending.active
        /\ transactions' = IF reached THEN UpdateRows(transactions, req)
                                      ELSE transactions
        /\ ui' = IF reached
                   THEN [editing |-> NULL, shown |-> transactions', error |-> FALSE]
                   ELSE [ui EXCEPT !.error = TRUE]
        /\ last' = Step("handleSubmitTransaction",
                        [editing |-> ui.editing, form |-> form], reached, <<>>,
                        IF reached THEN transactions' ELSE {},
                        IF reached /\ hit THEN {req.id} ELSE {})
        /\ UNCHANGED <<variant, cards, nextCardId, nextTxId, pending, clock, twin,
                       other, reply, boot>>

NextUi ==
    \/ \E req \in OrderAdds :
          /\ nextTxId + TotalInstallments(req) - 1 <= MaxTx
          /\ AddTransaction(req, Today, TotalInstallments(req))
    \/ \E req \in OrderAdds :
          /\ nextTxId + TotalInstallments(req) - 1 <= MaxTx
          /\ AddTransactionStart(req, Today)
    \/ InsertNext(FALSE)
    \/ Finalize
    \/ ShowAdded
    \/ \E id \in 1..MaxTx : StartEditingTransaction(id)
    \/ HandleCancelEdit
    \/ \E form \in EditForms : HandleSubmitEdit(form)

SpecUi == Init /\ [][NextUi]_vars

----------------------------------------------------------------------------
(* Startup: app.whenReady().then(...) runs initializeApp and quits the     *)
(* application when it throws.  Requests come from the renderer of the     *)
(* main window.                                                            *)

\* the application when whenReady resolves
Ready == [database |-> FALSE, handlers |-> FALSE, window |-> FALSE, quit |-> FALSE]

InitBoot ==
    /\ variant \in {"better", "sqlite3"}
    /\ cards = {}
    /\ transactions = {}
    /\ nextCardId = 1
    /\ nextTxId = 1
    /\ pending = NoCall
    /\ clock = 0
    /\ other = NoCall
    /\ reply = NoReply
    /\ ui = Idle
    /\ boot = Ready
    /\ twin = NoTwin
    /\ last = Step("whenReady", NoRequest, TRUE, <<>>, {}, {})

\* await initializeDatabase(app); a rejection leaves initializeApp and the
\* catch calls app.quit()
InitializeDatabase(ok) ==
    /\ ~boot.quit
    /\ ~boot.database
    /\ boot' = IF ok THEN [boot EXCEPT !.database = TRUE]
                     ELSE [boot EXCEPT !.quit = TRUE]
    /\ last' = Step("initializeDatabase", NoRequest, ok, <<>>, {}, {})
    /\ UNCHANGED <<variant, cards, transactions, nextCardId, nextTxId, pending,
                   clock, twin, other, reply, ui>>

\* registerIpcHandlers as if it were called before the database is awaited
RegisterIpcHandlersEarly ==
    /\ ~boot.quit
    /\ ~boot.handlers
    /\ boot' = [boot EXCEPT !.handlers = TRUE]
    /\ last' = Step("registerIpcHandlers", NoRequest, TRUE, <<>>, {}, {})
    /\ UNCHANGED <<variant, cards, transactions, nextCardId, nextTxId, pending,
                   clock, twin, other, reply, ui>>

RegisterIpcHandlers ==
    /\ ~boot.quit
    /\ boot.database
    /\ ~boot.handlers
    /\ boot' = [boot EXCEPT !.handlers = TRUE]
    /\ last' = Step("registerIpcHandlers", NoRequest, TRUE, <<>>, {}, {})
    /\ UNCHANGED <<variant, cards, transactions, nextCardId, nextTxId, pending,
                   clock, twin, other, reply, ui>>

\* await createWindow(): the BrowserWindow is constructed, then the page is
\* loaded; a load that fails leaves initializeApp and the catch calls app.quit()
CreateWindow(ok) ==
    /\ ~boot.quit
    /\ boot.handlers
    /\ ~boot.window
    /\ boot' = [boot EXCEPT !.window = TRUE, !.quit = ~ok]
    /\ last' = Step("createWindow", NoRequest, ok, <<>>, {}, {})
    /\ UNCHANGED <<variant, cards, transactions, nextCardId, nextTxId, pending,
                   clock, twin, other, reply, ui>>

\* a request of the renderer is served
Serving == boot.window /\ boot.handlers /\ ~boot.quit

NextBoot ==
    \/ \E ok \in BOOLEAN : InitializeDatabase(ok)
    \/ RegisterIpcHandlers
    \/ \E ok \in BOOLEAN : CreateWindow(ok)
    \/ \E req \in CardPayloads :
          /\ Serving
          /\ nextCardId <= MaxCards + 1
          /\ AddCard(req)
    \/ \E id \in 1..(MaxCards + 1) :
          /\ Serving
          /\ RemoveCard(id)
    \/ /\ Serving
       /\ GetAllData

SpecBoot == InitBoot /\ [][NextBoot]_vars

----------------------------------------------------------------------------
(* The two modules side by side: the sqlite3 module takes the requests     *)
(* one at a time, without storage faults, and the twin store takes each of *)
(* them as the better-sqlite3 module handles it: addTransaction as one     *)
(* insertMany transaction, the other requests by the same statements.      *)

TwinOps ==
    {"addTransaction:start", "updateTransaction", "removeTransaction",
     "addCard", "removeCard"}

\* addTransaction of the better-sqlite3 module on the twin store
TwinAddTransaction(tw, req, today) ==
    LET n     == TotalInstallments(req)
        group == GroupRows(req, today, tw.nextTxId, n)
        ok    == ForeignKeyOk(EntryCard(req), tw.cards)
        rows  == InsertMany(tw.transactions, group, IF ok THEN n ELSE 0)
    IN  [tw EXCEPT !.transactions = rows,
                   !.nextTxId = IF ok THEN @ + n ELSE @,
                   !.ok = ok,
                   !.listing = IF ok THEN rows ELSE {}]

TwinUpdateTransaction(tw, req) ==
    LET hit  == \E t \in tw.transactions : t.id = req.id
        ok   == hit => ForeignKeyOk(UpdateCard(req), tw.cards)
        rows == IF ok THEN UpdateRows(tw.transactions, req) ELSE tw.transactions
    IN  [tw EXCEPT !.transactions = rows, !.ok = ok,
                   !.listing = IF ok THEN rows ELSE {}]

TwinRemoveTransaction(tw, id) ==
    LET rows == DeleteRow(tw.transactions, id)
    IN  [tw EXCEPT !.transactions = rows, !.ok = TRUE, !.listing = rows]

TwinAddCard(tw, req) ==
    [tw EXCEPT !.cards = @ \cup {CardRow(req, tw.nextCardId)},
               !.nextCardId = @ + 1,
               !.ok = TRUE]

TwinRemoveCard(tw, id) ==
    [tw EXCEPT !.cards = {c \in @ : c.id # id},
               !.transactions = IF \E c \in tw.cards : c.id = id
                                  THEN OnDeleteSetNull(id, @) ELSE @,
               !.ok = TRUE]

\* the twin store after the request of a step
TwinApply(tw, step) ==
    CASE step.op = "addTransaction:start" -> TwinAddTransaction(tw, step.req, Today)
      [] step.op = "updateTransaction"    -> TwinUpdateTransaction(tw, step.req)
      [] step.op = "removeTransaction"    -> TwinRemoveTransaction(tw, step.req.id)
      [] step.op = "addCard"              -> TwinAddCard(tw, step.req)
      [] step.op = "removeCard"           -> TwinRemoveCard(tw, step.req.id)

\* what tells one step of the sqlite3 module from the next
Seen == <<last, nextCardId, nextTxId>>

\* the twin store has taken every request so far
Synced == twin.seen = Seen

TwinFollow ==
    /\ variant = "sqlite3"
    /\ ~Synced
    /\ twin' = IF last.op \in TwinOps
                 THEN [TwinApply(twin, last) EXCEPT !.seen = Seen]
                 ELSE [twin EXCEPT !.seen = Seen]
    /\ UNCHANGED <<variant, cards, transactions, nextCardId, nextTxId, pending,
                   clock, other, reply, ui, boot, last>>

\* one request at a time
Sequential == variant = "sqlite3" /\ Synced /\ ~pending.active

NextTwin ==
    \/ \E req \in AddRequests :
          /\ Sequential
          /\ nextTxId + TotalInstallments(req) - 1 <= MaxTx
          /\ AddTransactionStart(req, Today)
    \/ /\ Synced
       /\ InsertNext(FALSE)
    \/ /\ Synced
       /\ Finalize
    \/ \E req \in UpdateRequests :
          /\ Sequential
          /\ UpdateTransaction(req)
    \/ \E id \in 1..MaxTx :
          /\ Sequential
          /\ RemoveTransaction(id)
    \/ \E req \in CardRequests :
          /\ Sequential
          /\ nextCardId <= MaxCards
          /\ AddCard(req)
    \/ \E id \in 1..MaxCards :
          /\ Sequential
          /\ RemoveCard(id)
    \/ TwinFollow

SpecTwin == Init /\ [][NextTwin]_vars

----------------------------------------------------------------------------
(* Properties of the planner *)

RECURSIVE SumAmounts(_)
SumAmounts(rows) ==
    IF rows = <<>> THEN 0 ELSE Head(rows).amount + SumAmounts(Tail(rows))

\* an amount of whole cents, not negative
WholeCents(amount) == amount >= 0 /\ amount % 10 = 0

\* C1: the amounts of the rows one addTransaction call writes sum to the
\* entered total, to the cent, for every non-negative total of at most two
\* decimals and every installment count
C1_CentExact ==
    (AddDone /\ WholeCents(last.req.amount))
        => /\ SumAmounts(last.written) = last.req.amount
           /\ \A i \in 1..Len(last.written) : last.written[i].amount % 10 = 0

C1_Witness ==
    /\ AddDone
    /\ last.req.amount = 100000
    /\ Len(last.written) = 3
    /\ last.written[1].amount = 33340
    /\ last.written[2].amount = 33330
    /\ last.written[3].amount = 33330

\* C2: with base = floor(totalCents / N) and remainder = totalCents mod N,
\* exactly the first `remainder` rows carry base + 1 cents and the others
\* carry base cents
C2_RemainderFirst ==
    AddDone =>
        LET n          == Len(last.written)
            totalCents == ToCents(last.req.amount)
            base       == totalCents \div n
            remainder  == totalCents % n
        IN  /\ n >= 1
            /\ \A i \in 1..n :
                  last.written[i].amount =
                      IF i <= remainder THEN (base + 1) * 10 ELSE base * 10
            /\ Cardinality({i \in 1..n : last.written[i].amount = (base + 1) * 10})
                  = remainder
            /\ \A i, j \in 1..n :
                  i < j => /\ last.written[i].amount >= last.written[j].amount
                           /\ last.written[i].amount - last.written[j].amount <= 10

C2_Witness ==
    /\ AddDone
    /\ Len(last.written) = 5
    /\ last.req.amount = 120
    /\ last.written[2].amount = 30
    /\ last.written[3].amount = 20

\* C8: an expense request with requested count n writes exactly max(1, n)
\* rows, which share type, description, category and installments, and are
\* numbered 1..max(1, n) in the order they were generated
C8_GroupShape ==
    (AddDone /\ last.req.type # "income") =>
        LET n == IF last.req.installments < 1 THEN 1 ELSE last.req.installments
        IN  /\ Len(last.written) = n
            /\ \A i \in 1..Len(last.written) :
                  /\ last.written[i].installment_number = i
                  /\ last.written[i].installments = n
                  /\ last.written[i].type = "expense"
                  /\ last.written[i].description = last.written[1].description
                  /\ last.written[i].category = last.written[1].category
            /\ \A i, j \in 1..Len(last.written) :
                  i # j => last.written[i].id # last.written[j].id

C8_Witness ==
    /\ AddDone
    /\ last.req.type = "expense"
    /\ last.req.installments = 4
    /\ Len(last.written) = 4
    /\ last.written[4].installment_number = 4

\* C9: the date of installment k is the start date plus k - 1 calendar
\* months, counted from the start date itself, on the start day or on the
\* month's last day when the month is shorter
C9_MonthRollover ==
    (AddDone /\ last.req.transactionDate # NoDate) =>
        LET start == last.req.transactionDate
        IN  /\ \A k \in 1..Len(last.written) :
                  LET d == last.written[k].transaction_date
                  IN  /\ d[1] * 12 + d[2] = start[1] * 12 + start[2] + (k - 1)
                      /\ d[2] \in 1..12
                      /\ d[3] = IF start[3] <= DaysInMonth(d[1], d[2])
                                  THEN start[3]
                                  ELSE DaysInMonth(d[1], d[2])
            /\ (start = <<2024, 1, 31>> /\ Len(last.written) >= 3)
                  => /\ last.written[1].transaction_date = <<2024, 1, 31>>
                     /\ last.written[2].transaction_date = <<2024, 2, 29>>
                     /\ last.written[3].transaction_date = <<2024, 3, 31>>

C9_Witness ==
    /\ AddDone
    /\ last.req.transactionDate = <<2023, 12, 31>>
    /\ Len(last.written) = 4
    /\ last.written[2].transaction_date = <<2024, 1, 31>>
    /\ last.written[3].transaction_date = <<2024, 2, 29>>
    /\ last.written[4].transaction_date = <<2024, 3, 31>>

----------------------------------------------------------------------------
(* Properties of the store *)

StoredIds == {t.id : t \in transactions}

\* C3: an addTransaction call that fails after writing some rows of its group
\* leaves none of them in the store
C3_GroupAtomic ==
    (last.op = "addTransaction" /\ ~last.ok)
        => \A i \in 1..Len(last.written) : last.written[i].id \notin StoredIds

\* C4: no listing read while an addTransaction call of several installments is
\* in progress holds some but not all of the rows of its group
C4_NoPartialRead ==
    (pending.active /\ TotalInstallments(pending.req) > 1)
        => LET seen == {i \in 1..Len(pending.written) :
                           \E t \in last.listing : t.id = pending.written[i].id}
           IN  seen = {} \/ Cardinality(seen) = TotalInstallments(pending.req)

\* C5: every stored income transaction has no card reference
C5_IncomeNoCard ==
    \A t \in transactions : t.type = "income" => t.card_id = NULL

\* C6: every stored income transaction has installments = 1 and
\* installment_number = 1, and an income addTransaction request writes exactly
\* one row whatever count it asks for
C6_IncomeSingle ==
    /\ \A t \in transactions :
          t.type = "income" => t.installments = 1 /\ t.installment_number = 1
    /\ (AddDone /\ last.req.type = "income") => Len(last.written) = 1

C6_Witness ==
    /\ AddDone
    /\ last.req.type = "income"
    /\ last.req.installments > 1
    /\ Len(last.written) = 1
    /\ last.written[1] \in transactions
    /\ \E t \in transactions :
          t.type = "income" /\ t.description = "" /\ t.id # last.written[1].id

\* C7: removeCard deletes only the card: the transactions keep their number,
\* those that referenced the card have their card reference set to null, and
\* nothing else of any transaction changes
C7_RemoveCardKeepsRows ==
    [][ last'.op = "removeCard" =>
          /\ cards' = {c \in cards : c.id # last'.req.id}
          /\ Cardinality(transactions') = Cardinality(transactions)
          /\ \A t \in transactions :
                IF t.card_id = last'.req.id
                  THEN [t EXCEPT !.card_id = NULL] \in transactions'
                  ELSE t \in transactions' ]_vars

C7_Witness ==
    /\ last.op = "removeCard"
    /\ Cardinality(last.touched) = 2
    /\ \A id \in last.touched :
          \E t \in transactions : t.id = id /\ t.card_id = NULL /\ t.type = "expense"
    /\ last.req.id \notin CardIds

\* C10: updateTransaction rewrites at most the row with the id of the request:
\* the number of stored transactions and every other row stay as they were
C10_UpdateOneRow ==
    [][ last'.op = "updateTransaction" =>
          /\ Cardinality(transactions') = Cardinality(transactions)
          /\ {t.id : t \in transactions'} = StoredIds
          /\ \A t \in transactions : t.id # last'.req.id => t \in transactions' ]_vars

C10_Witness ==
    /\ last.op = "updateTransaction"
    /\ last.ok
    /\ last.touched = {last.req.id}
    /\ last.req.type = "expense"
    /\ Cardinality(transactions) = 2
    /\ \E t \in transactions :
          t.id = last.req.id /\ t.installments = 2 /\ t.description = ""
    /\ \E t \in transactions : t.id # last.req.id /\ t.description = "mercado"

\* C11: every stored transaction has 1 <= installment_number <= installments,
\* whatever integer counts and numbers the addTransaction and updateTransaction
\* requests carried
C11_NumberInRange ==
    \A t \in transactions :
        1 <= t.installment_number /\ t.installment_number <= t.installments

C11_Witness ==
    /\ last.op = "updateTransaction"
    /\ last.ok
    /\ last.req.type = "expense"
    /\ last.req.installments = 2
    /\ last.req.installmentNumber > 2
    /\ \E t \in transactions :
          t.id = last.req.id /\ t.installments = 2 /\ t.installment_number = 2
    /\ \E t \in transactions :
          t.id # last.req.id /\ t.installments = 1 /\ t.installment_number = 1
             /\ t.transaction_date = <<2024, 2, 1>>

\* C12: removeTransaction deletes exactly the row with the id of the request:
\* every other row, the siblings of its installment group included, stays as it
\* was, and an id that matches no row leaves the store as it was
C12_RemoveOneRow ==
    [][ last'.op = "removeTransaction" =>
          /\ transactions' \subseteq transactions
          /\ \A t \in transactions : t.id # last'.req.id <=> t \in transactions'
          /\ last'.req.id \notin StoredIds => transactions' = transactions ]_vars

C12_Witness ==
    /\ last.op = "removeTransaction"
    /\ last.req.id = 1
    /\ last.touched = {1}
    /\ \E t \in transactions :
          /\ t.id = 2
          /\ t.installments = 2
          /\ t.installment_number = 2
          /\ t.description = "mercado"

\* a transaction payload the specification has the store refuse
InvalidTransaction(req) ==
    \/ req.amount <= 0
    \/ Trim(req.description) = ""
    \/ Trim(req.category) = ""

\* C13: an addTransaction or updateTransaction request with an amount of zero
\* or less, or with a description or category that is empty after trimming,
\* returns an error and writes nothing
C13_RejectInvalid ==
    (last.op \in {"addTransaction", "updateTransaction"} /\ InvalidTransaction(last.req))
        => /\ ~last.ok
           /\ last.written = <<>>
           /\ last.touched = {}

\* a card payload the specification has the store refuse
InvalidCard(req) == Trim(req.name) = "" \/ req.limitValue <= 0

\* C14: an addCard request with a name that is empty after trimming, or with a
\* limit of zero or less, returns an error and stores no card
C14_RejectInvalidCard ==
    (last.op = "addCard" /\ InvalidCard(last.req))
        => /\ ~last.ok
           /\ \A c \in cards : c.name # "" /\ c.limit_value > 0

\* C15: every stored amount is a number of whole cents that is not negative
C15_StoredWholeCents ==
    \A t \in transactions : WholeCents(t.amount)

\* the sum of the amounts of a set of rows
RECURSIVE SumOfRows(_)
SumOfRows(rows) ==
    IF rows = {}
      THEN 0
      ELSE LET t == CHOOSE x \in rows : TRUE
           IN  t.amount + SumOfRows(rows \ {t})

\* the stored rows of one type dated in one month
RowsOfMonth(type, year, month) ==
    {t \in transactions :
        /\ t.type = type
        /\ t.transaction_date[1] = year
        /\ t.transaction_date[2] = month}

\* the savings history a getSavingsHistory call returned
GotSavings == last.op = "getSavingsHistory"

\* C16: getSavingsHistory returns one entry per month that has a transaction;
\* its income and expense are the sums of the income and expense amounts dated
\* in the month, and its savings is income - expense when that is positive
\* and 0 otherwise
C16_MonthlySavings ==
    GotSavings =>
        LET h == last.savings.history
        IN  /\ {<<h[i].year, h[i].month>> : i \in DOMAIN h}
                  = {<<t.transaction_date[1], t.transaction_date[2]>> : t \in transactions}
            /\ \A i, j \in DOMAIN h :
                  (h[i].year = h[j].year /\ h[i].month = h[j].month) => i = j
            /\ \A i \in DOMAIN h :
                  /\ h[i].income = SumOfRows(RowsOfMonth("income", h[i].year, h[i].month))
                  /\ h[i].expense = SumOfRows(RowsOfMonth("expense", h[i].year, h[i].month))
                  /\ h[i].savings >= 0
                  /\ h[i].savings = IF h[i].income > h[i].expense
                                      THEN h[i].income - h[i].expense
                                      ELSE 0

C16_Witness ==
    /\ GotSavings
    /\ Len(last.savings.history) = 1
    /\ last.savings.history[1].year = 2024
    /\ last.savings.history[1].month = 1
    /\ last.savings.history[1].income = 600
    /\ last.savings.history[1].expense = 1000
    /\ last.savings.history[1].savings = 0

RECURSIVE SumOfSavings(_)
SumOfSavings(history) ==
    IF history = <<>> THEN 0 ELSE Head(history).savings + SumOfSavings(Tail(history))

\* C17: totalSaved is the sum of the savings of the entries of the returned
\* history
C17_TotalSaved ==
    GotSavings => last.savings.totalSaved = SumOfSavings(last.savings.history)

C17_Witness ==
    /\ GotSavings
    /\ Len(last.savings.history) = 2
    /\ last.savings.history[1].month = 2
    /\ last.savings.history[1].savings = 0
    /\ last.savings.history[2].month = 1
    /\ last.savings.history[2].savings = 600
    /\ last.savings.totalSaved = 600
    /\ last.savings.history[1].income + last.savings.history[2].income
          < last.savings.history[1].expense + last.savings.history[2].expense

\* C18: every list of all transactions that a call returns is sorted by date,
\* latest first, and rows of one date are sorted by creation, the row inserted
\* later first, also when they were inserted within one second of the clock
C18_ListingOrder ==
    (last.op \in {"addTransaction", "updateTransaction", "removeTransaction",
                  "getAllData"} /\ last.ok)
        => \A seq \in OrderByDateDesc(last.listing) :
              \A i, j \in DOMAIN seq :
                  i < j =>
                    /\ ~DateLT(seq[i].transaction_date, seq[j].transaction_date)
                    /\ seq[i].transaction_date = seq[j].transaction_date
                          => seq[i].id > seq[j].id

\* C19: getTransactionsByMonth(year, month) returns exactly the stored rows
\* dated from the first to the last day of the month, both included, and none
\* of another month, sorted by date and then by installment_number, lowest
\* first
C19_MonthListing ==
    last.op = "getTransactionsByMonth" =>
        LET year  == last.req.year
            month == last.req.month
        IN  /\ month \in 1..12
            /\ \A t \in transactions :
                  t \in last.listing
                      <=> /\ t.transaction_date[1] = year
                          /\ t.transaction_date[2] = month
            /\ last.listing \subseteq transactions
            /\ OrderByMonth(last.listing) # {}
            /\ \A seq \in OrderByMonth(last.listing) :
                  \A i, j \in DOMAIN seq :
                      i < j =>
                        /\ DateLE(seq[i].transaction_date, seq[j].transaction_date)
                        /\ seq[i].transaction_date = seq[j].transaction_date
                              => seq[i].installment_number <= seq[j].installment_number

C19_Witness ==
    /\ last.op = "getTransactionsByMonth"
    /\ last.req = [year |-> 2024, month |-> 2]
    /\ Cardinality(last.listing) = 2
    /\ \E t \in last.listing : t.transaction_date = <<2024, 2, 1>>
    /\ \E t \in last.listing : t.transaction_date = <<2024, 2, 29>>

\* C20: after an addTransaction of an expense of n installments on an empty
\* store, starting in month m, getTransactionsByMonth of the k-th month from m
\* returns exactly the row of the group with installment_number k, which
\* carries the k-th amount of the cent distribution, for k in 1..n, and no row
\* for a month outside m .. m + n - 1
C20_RoundTrip ==
    [][ ( /\ AddDone
          /\ last.req.type = "expense"
          /\ last.req.transactionDate # NoDate
          /\ last'.op = "getTransactionsByMonth" ) =>
          LET n          == IF last.req.installments < 1 THEN 1 ELSE last.req.installments
              start      == last.req.transactionDate
              k          == (last'.req.year * 12 + last'.req.month)
                               - (start[1] * 12 + start[2]) + 1
              totalCents == ToCents(last.req.amount)
              base       == totalCents \div n
              remainder  == totalCents % n
          IN  IF k \in 1..n
                THEN /\ Cardinality(last'.listing) = 1
                     /\ \A t \in last'.listing :
                           /\ t \in transactions
                           /\ t = last.written[k]
                           /\ t.installment_number = k
                           /\ t.installments = n
                           /\ t.amount = (base + IF k <= remainder THEN 1 ELSE 0) * 10
                ELSE last'.listing = {} ]_vars

C20_Witness ==
    /\ last.op = "getTransactionsByMonth"
    /\ last.req = [year |-> 2024, month |-> 7]
    /\ Cardinality(transactions) = 3
    /\ \E t \in transactions :
          t.transaction_date = <<2024, 5, 15>> /\ t.installment_number = 1 /\ t.amount = 33340
    /\ \E t \in transactions :
          t.transaction_date = <<2024, 6, 15>> /\ t.installment_number = 2 /\ t.amount = 33330
    /\ Cardinality(last.listing) = 1
    /\ \A t \in last.listing :
          t.transaction_date = <<2024, 7, 15>> /\ t.installment_number = 3 /\ t.amount = 33330

\* C21: every stored transaction with a card reference refers to a stored
\* card: a request that names a card that is not stored leaves no row that
\* points at it, and removeCard succeeds and clears the references
C21_CardExists ==
    /\ \A t \in transactions : t.card_id # NULL => t.card_id \in CardIds
    /\ (last.op \in {"addTransaction", "updateTransaction"}
          /\ last.req.cardId # NULL /\ last.req.cardId \notin CardIds)
          => \A t \in transactions : t.card_id # last.req.cardId
    /\ last.op = "removeCard"
          => last.ok /\ \A t \in transactions : t.card_id # last.req.id

C21_Witness ==
    /\ last.op = "updateTransaction"
    /\ ~last.ok
    /\ last.req.type = "expense"
    /\ last.req.cardId = 1
    /\ cards = {}
    /\ nextCardId = 2
    /\ \E t \in transactions : t.id = last.req.id /\ t.card_id = NULL

\* an addTransaction call that returned an error
AddFailed == last.op = "addTransaction" /\ ~last.ok

C24_Terminates ==
    /\ [](pending.active =>
            /\ pending.index <= TotalInstallments(pending.req)
            /\ Len(pending.written) = pending.index)
    /\ [](variant = "better" => ~pending.active)
    /\ (pending.active ~> (~pending.active /\ last.op = "addTransaction"))

C24_Witness ==
    /\ variant = "sqlite3"
    /\ AddDone
    /\ last.req.installments = 2
    /\ Len(last.written) = 2
    /\ last.written[2].installment_number = 2
    /\ ~pending.active

\* the rows a call has written are the first rows of its own group, under
\* distinct ids, and they are stored
OwnRows(req, written) ==
    /\ \A i \in 1..Len(written) :
          /\ written[i] = Row(Entry(req, Today, i), written[i].id)
          /\ written[i].installment_number = i
          /\ written[i] \in transactions
    /\ \A i, j \in 1..Len(written) : i # j => written[i].id # written[j].id

\* C25: when two addTransaction calls of the sqlite3 module overlap, each one
\* writes exactly the rows of its own group: n rows numbered 1..n, with the
\* amounts and dates of its own request, whatever the other call inserts
\* in between
C25_OverlapIndependent ==
    /\ pending.active => OwnRows(pending.req, pending.written)
    /\ other.active => OwnRows(other.req, other.written)
    /\ AddDone =>
          /\ Len(last.written) = TotalInstallments(last.req)
          /\ OwnRows(last.req, last.written)
          /\ Cardinality({t \in transactions :
                             \E i \in 1..Len(last.written) : t.id = last.written[i].id})
                = TotalInstallments(last.req)

C25_Witness ==
    /\ AddDone
    /\ last.req.description = " feira "
    /\ Len(last.written) = 2
    /\ last.written[1].id = 2
    /\ last.written[2].id = 4
    /\ \E t \in transactions :
          t.id = 1 /\ t.description = "mercado" /\ t.installment_number = 1
    /\ \E t \in transactions :
          t.id = 3 /\ t.description = "mercado" /\ t.installment_number = 2
             /\ t.transaction_date = <<2024, 2, 29>>

\* C22: the savings history in the response of an add-, update- or
\* remove-transaction request is the one derived from the transactions in
\* the same response
C22_ConsistentPair ==
    last.op = "reply" => last.savings = SavingsHistory(last.listing)

\* C27: for every entry of the history getSavingsHistory returned, income
\* and expense are the sums of the income and expense rows that
\* getTransactionsByMonth returns for the entry's year and month, and every
\* month for which getTransactionsByMonth returns a row has an entry
C27_ViewsAgree ==
    GotSavings =>
        LET h == last.savings.history
        IN  /\ \A i \in DOMAIN h :
                  LET listed == TransactionsByMonth(transactions, h[i].year, h[i].month)
                  IN  /\ h[i].income = SumOfRows({t \in listed : t.type = "income"})
                      /\ h[i].expense = SumOfRows({t \in listed : t.type = "expense"})
            /\ \A ym \in PlanMonths :
                  TransactionsByMonth(transactions, ym[1], ym[2]) # {}
                      => \E i \in DOMAIN h : h[i].year = ym[1] /\ h[i].month = ym[2]

TransactionOps ==
    {"addTransaction", "addTransaction:start", "insertNext",
     "updateTransaction", "removeTransaction"}

ReadOps == {"getAllData", "getTransactionsByMonth", "getSavingsHistory"}

\* C28: addTransaction, updateTransaction and removeTransaction leave the
\* cards as they are, addCard leaves the transactions as they are, and
\* getAllData, getTransactionsByMonth and getSavingsHistory change neither
C28_Frame ==
    [][ /\ last'.op \in TransactionOps
              => cards' = cards /\ nextCardId' = nextCardId
        /\ last'.op = "addCard"
              => transactions' = transactions /\ nextTxId' = nextTxId
        /\ last'.op \in ReadOps
              => /\ cards' = cards /\ nextCardId' = nextCardId
                 /\ transactions' = transactions /\ nextTxId' = nextTxId ]_vars

C28_Witness ==
    /\ last.op = "removeTransaction"
    /\ last.touched = {1}
    /\ transactions = {}
    /\ \E c \in cards : c.id = 1
    /\ nextTxId = 2

\* C29: a submit of the form while a transaction is being edited, with a
\* description, a category and a positive amount, reaches updateTransaction
\* of the store for the edited row, and the UI then is out of the editing
\* state and shows the returned transactions
C29_EditReachesStore ==
    ( /\ last.op = "handleSubmitTransaction"
      /\ last.req.editing # NULL
      /\ ValidForm(last.req.form) )
        => /\ last.ok
           /\ last.touched \subseteq {last.req.editing}
           /\ ui.editing = NULL
           /\ ui.shown = last.listing

\* C30: the request handlers are registered only once initializeDatabase
\* has succeeded and the main window is created only once the handlers are
\* registered; when initializeDatabase fails the application quits with no
\* handler registered and no window created, and no request is ever served
\* without the database and the handlers
C30_StartupOrder ==
    /\ boot.handlers => boot.database
    /\ boot.window => boot.handlers
    /\ ~boot.database => (~boot.handlers /\ ~boot.window)
    /\ (last.op = "initializeDatabase" /\ ~last.ok)
          => (boot.quit /\ ~boot.handlers /\ ~boot.window)
    /\ last.op \in {"addCard", "removeCard", "getAllData"}
          => (boot.database /\ boot.handlers /\ boot.window)

C30_Witness ==
    /\ boot = Started
    /\ last.op = "addCard"
    /\ last.ok
    /\ cards # {}

====
